---- MODULE Spec2Model ----
(***************************************************************************)
(* Model of the user-record command set of app/cli.py.                     *)
(*                                                                         *)
(* The persisted state is the single User table.  Every command opens one  *)
(* session, runs one query or one transaction, prints, and exits; a        *)
(* command is therefore one atomic step of the model.  Strings are         *)
(* sequences of one-character strings so that LIKE patterns, case folding  *)
(* and substring tests are computed, not assumed.                          *)
(*                                                                         *)
(* app/database.py and app/models.py are not part of the sources at hand:  *)
(* the User constructor, the uniqueness constraints, drop_all,             *)
(* create_db_and_tables and the session scope are modelled from the        *)
(* specification (section 3, 4.1, 6).                                      *)
(***************************************************************************)
EXTENDS Integers, Sequences, FiniteSets, TLC

VARIABLES
    table,   \* the User table: the rows in storage (insertion) order
    before,  \* the table as the last command found it
    cmd,     \* the last command and its arguments
    out      \* what the last command printed, and whether it raised

vars == <<table, before, cmd, out>>

----------------------------------------------------------------------------
(* Bounds of the model *)

\* get_first_n_users is called with limit in 0..MaxLimit, offset in 0..MaxOffset
MaxLimit == 2
MaxOffset == 4

(* Defaults of get_first_n_users *)
DefaultLimit == 10
DefaultOffset == 0

----------------------------------------------------------------------------
(* Strings *)

Range(s) == { s[i] : i \in 1..Len(s) }

UpperCase == <<"A","B","C","D","E","F","G","H","I","J","K","L","M",
               "N","O","P","Q","R","S","T","U","V","W","X","Y","Z">>
LowerCase == <<"a","b","c","d","e","f","g","h","i","j","k","l","m",
               "n","o","p","q","r","s","t","u","v","w","x","y","z">>

\* str.lower on one character: the ASCII letters fold, the rest stay
lower_char ==
    [c \in Range(UpperCase) |-> LowerCase[CHOOSE i \in 1..Len(UpperCase) : UpperCase[i] = c]]

lower(s) == [i \in 1..Len(s) |-> IF s[i] \in DOMAIN lower_char THEN lower_char[s[i]] ELSE s[i]]

\* the seed user of initialize
bob      == <<"b","o","b">>
bobmail  == <<"b","o","b","@","m","a","i","l",".","c","o","m">>
bobpass  == <<"b","o","b","p","a","s","s">>

\* command-line arguments tried by the model
Usernames == { bob, <<"A","l">>, <<"a","_","b">> }
Emails    == { bobmail, <<"a","l","@","x">>, <<"B","%","@","x">> }
Passwords == { bobpass, <<"p","w">> }
Queries   == { <<>>, <<"b">>, <<"O","B">>, <<"a","L">>, <<"@","x">>, <<"z">>,
               <<"_">>, <<"%">>, <<"b","_","b">>, <<"a","_">>, <<"l","%","x">> }

\* the users seeded for the pagination runs, besides bob
PageUsers == { <<<<"u","1">>, <<"u","1","@","x">>, <<"p","1">>>>,
               <<<<"u","2">>, <<"u","2","@","x">>, <<"p","2">>>>,
               <<<<"u","3">>, <<"u","3","@","x">>, <<"p","3">>>>,
               <<<<"u","4">>, <<"u","4","@","x">>, <<"p","4">>>> }
PageUsernames == { bob } \cup { s[1] : s \in PageUsers }

----------------------------------------------------------------------------
(* Storage and the User model *)

\* User(username, email, password).  The surrogate id the storage assigns is
\* read by no command: a row is identified by its place in storage order.
User(username, email, password) ==
    [username |-> username, email |-> email, password |-> password]

\* variant: the constraint on email left out of the table definition
IntegrityOK_username_only(t) ==
    \A i, j \in 1..Len(t) : i # j => t[i].username # t[j].username

\* the uniqueness constraints of the User table: username, and email
IntegrityOK(t) ==
    \A i, j \in 1..Len(t) :
        i # j => /\ t[i].username # t[j].username
                 /\ t[i].email # t[j].email

\* drop_all(); create_db_and_tables(): the schema again, with no rows
drop_all(t) == <<>>

\* db.add(newuser): the pending INSERT of a new object, last in storage order
add(t, user) == Append(t, user)

\* db.exec(select(User).where(User.username == username)).first()
\* the position of the first row with that username, 0 when there is none
first_by_username(t, username) ==
    IF \E i \in 1..Len(t) : t[i].username = username
    THEN CHOOSE i \in 1..Len(t) :
            /\ t[i].username = username
            /\ \A j \in 1..(i - 1) : t[j].username # username
    ELSE 0

\* db.delete(user): the table without the row at position i
delete(t, i) == [k \in 1..(Len(t) - 1) |-> IF k < i THEN t[k] ELSE t[k + 1]]

Printed(kind, rows) == [kind |-> kind, rows |-> rows, raised |-> "none"]
Raised(error)       == [kind |-> "traceback", rows |-> <<>>, raised |-> error]

----------------------------------------------------------------------------
(* Queries *)

RECURSIVE Like(_, _)
\* SQL LIKE: '%' matches any run of characters, '_' any one character
Like(s, p) ==
    IF p = <<>> THEN s = <<>>
    ELSE IF Head(p) = "%"
         THEN Like(s, Tail(p)) \/ (s # <<>> /\ Like(Tail(s), p))
         ELSE /\ s # <<>>
              /\ (Head(p) = "_" \/ Head(p) = Head(s))
              /\ Like(Tail(s), Tail(p))

\* column.ilike(pattern): LIKE on the case-folded column and pattern
ilike(column, pattern) == Like(lower(column), lower(pattern))

\* f'%{query}%'
partial_pattern(query) == <<"%">> \o query \o <<"%">>

\* select(User).where(User.email.ilike(..) | User.username.ilike(..)).all()
select_partial(t, query) ==
    SelectSeq(t, LAMBDA r : \/ ilike(r.email, partial_pattern(query))
                            \/ ilike(r.username, partial_pattern(query)))

Min(a, b) == IF a <= b THEN a ELSE b

\* variant: the two arguments handed over in each other's place
select_page_swapped(t, limit, offset) ==
    IF limit >= Len(t) \/ offset = 0 THEN <<>>
    ELSE SubSeq(t, limit + 1, Min(limit + offset, Len(t)))

\* select(User).offset(offset).limit(limit).all()
select_page(t, limit, offset) ==
    IF offset >= Len(t) \/ limit = 0 THEN <<>>
    ELSE SubSeq(t, offset + 1, Min(offset + limit, Len(t)))

----------------------------------------------------------------------------
(* The commands: the table each leaves and what it prints *)

Result(t, o) == [table |-> t, out |-> o]

\* variant: the tables are not dropped first
initialize_run_no_drop(t) ==
    LET pending == add(t, User(bob, bobmail, bobpass))
    IN  IF IntegrityOK(pending)
        THEN Result(pending, Printed("Database Initialized", <<>>))
        ELSE Result(t, Raised("IntegrityError"))

initialize_run(t) ==
    LET fresh   == drop_all(t)
        pending == add(fresh, User(bob, bobmail, bobpass))
    IN  IF IntegrityOK(pending)
        THEN Result(pending, Printed("Database Initialized", <<>>))
        ELSE Result(fresh, Raised("IntegrityError"))

get_user_run(t, username) ==
    LET i == first_by_username(t, username)
    IN  IF i = 0
        THEN Result(t, Printed("not found!", <<>>))
        ELSE Result(t, Printed("user", <<t[i]>>))

get_all_users_run(t) ==
    IF t = <<>>
    THEN Result(t, Printed("No users found", <<>>))
    ELSE Result(t, Printed("users", t))

\* variant: the commit is missing, the session closes on the pending update
change_email_run_no_commit(t, username, new_email) ==
    LET i == first_by_username(t, username)
    IN  IF i = 0
        THEN Result(t, Printed("not found! Unable to update email.", <<>>))
        ELSE Result(t, Printed("Updated", <<[t[i] EXCEPT !.email = new_email]>>))

\* variant: the IntegrityError is caught as create_user catches it
change_email_run_caught(t, username, new_email) ==
    LET i == first_by_username(t, username)
    IN  IF i = 0
        THEN Result(t, Printed("not found! Unable to update email.", <<>>))
        ELSE LET pending == [t EXCEPT ![i].email = new_email]
             IN  IF IntegrityOK(pending)
                 THEN Result(pending, Printed("Updated", <<pending[i]>>))
                 ELSE Result(t, Printed("Username or email already taken!", <<>>))

\* variant: the new value is assigned to the wrong field
change_email_run_wrong_field(t, username, new_email) ==
    LET i == first_by_username(t, username)
    IN  IF i = 0
        THEN Result(t, Printed("not found! Unable to update email.", <<>>))
        ELSE LET pending == [t EXCEPT ![i].username = new_email]
             IN  IF IntegrityOK(pending)
                 THEN Result(pending, Printed("Updated", <<pending[i]>>))
                 ELSE Result(t, Raised("IntegrityError"))

change_email_run(t, username, new_email) ==
    LET i == first_by_username(t, username)
    IN  IF i = 0
        THEN Result(t, Printed("not found! Unable to update email.", <<>>))
        ELSE LET pending == [t EXCEPT ![i].email = new_email]
             IN  IF IntegrityOK(pending)
                 THEN Result(pending, Printed("Updated", <<pending[i]>>))
                 ELSE Result(t, Raised("IntegrityError"))

\* variant: no handler, the IntegrityError leaves the command
create_user_run_no_except(t, username, email, password) ==
    LET newuser == User(username, email, password)
        pending == add(t, newuser)
    IN  IF IntegrityOK(pending)
        THEN Result(pending, Printed("user", <<pending[Len(pending)]>>))
        ELSE Result(t, Raised("IntegrityError"))

\* variant: email and password handed to User in each other's place
create_user_run_swapped(t, username, email, password) ==
    LET newuser == User(username, password, email)
        pending == add(t, newuser)
    IN  IF IntegrityOK(pending)
        THEN Result(pending, Printed("user", <<pending[Len(pending)]>>))
        ELSE Result(t, Printed("Username or email already taken!", <<>>))

create_user_run(t, username, email, password) ==
    LET newuser == User(username, email, password)
        pending == add(t, newuser)
    IN  IF IntegrityOK(pending)
        THEN Result(pending, Printed("user", <<pending[Len(pending)]>>))
        ELSE Result(t, Printed("Username or email already taken!", <<>>))

\* variant: the commit is missing, the session closes on the pending delete
delete_user_run_no_commit(t, username) ==
    LET i == first_by_username(t, username)
    IN  IF i = 0
        THEN Result(t, Printed("not found! Unable to delete user.", <<>>))
        ELSE Result(t, Printed("deleted", <<>>))

delete_user_run(t, username) ==
    LET i == first_by_username(t, username)
    IN  IF i = 0
        THEN Result(t, Printed("not found! Unable to delete user.", <<>>))
        ELSE Result(delete(t, i), Printed("deleted", <<>>))

get_user_from_partial_run(t, query) ==
    LET matching_users == select_partial(t, query)
    IN  IF matching_users = <<>>
        THEN Result(t, Printed("No matches", <<>>))
        ELSE Result(t, Printed("users", matching_users))

get_first_n_users_run(t, limit, offset) ==
    LET users == select_page(t, limit, offset)
    IN  IF users = <<>>
        THEN Result(t, Printed("No users found.", <<>>))
        ELSE Result(t, Printed("users", users))

----------------------------------------------------------------------------
(* The state machine: one step per command-line invocation *)

Step(name, args, r) ==
    /\ before' = table
    /\ cmd' = [name |-> name, args |-> args]
    /\ table' = r.table
    /\ out' = r.out

initialize ==
    /\ TRUE
    /\ Step("initialize", <<>>, initialize_run(table))

get_user(username) ==
    /\ TRUE
    /\ Step("get_user", <<username>>, get_user_run(table, username))

get_all_users ==
    /\ TRUE
    /\ Step("get_all_users", <<>>, get_all_users_run(table))

change_email(username, new_email) ==
    /\ TRUE
    /\ Step("change_email", <<username, new_email>>,
            change_email_run(table, username, new_email))

create_user(username, email, password) ==
    /\ TRUE
    /\ Step("create_user", <<username, email, password>>,
            create_user_run(table, username, email, password))

delete_user(username) ==
    /\ TRUE
    /\ Step("delete_user", <<username>>, delete_user_run(table, username))

get_user_from_partial(query) ==
    /\ TRUE
    /\ Step("get_user_from_partial", <<query>>,
            get_user_from_partial_run(table, query))

get_first_n_users(limit, offset) ==
    /\ TRUE
    /\ Step("get_first_n_users", <<limit, offset>>,
            get_first_n_users_run(table, limit, offset))

\* get-first-n-users with no arguments: both defaults apply
get_first_n_users_default ==
    /\ TRUE
    /\ Step("get_first_n_users", <<>>,
            get_first_n_users_run(table, DefaultLimit, DefaultOffset))

\* the database as the first initialize leaves it
Init ==
    /\ table = initialize_run(<<>>).table
    /\ before = <<>>
    /\ cmd = [name |-> "initialize", args |-> <<>>]
    /\ out = initialize_run(<<>>).out

Next ==
    \/ initialize
    \/ \E u \in Usernames : get_user(u)
    \/ get_all_users
    \/ \E u \in Usernames, e \in Emails : change_email(u, e)
    \/ \E u \in Usernames, e \in Emails, p \in Passwords : create_user(u, e, p)
    \/ \E u \in Usernames : delete_user(u)
    \/ \E q \in Queries : get_user_from_partial(q)
    \/ \E l \in 0..MaxLimit, o \in 0..MaxOffset : get_first_n_users(l, o)
    \/ get_first_n_users_default

Spec == Init /\ [][Next]_vars

\* the pagination runs: a table seeded with up to five users, then paged
NextPage ==
    \/ initialize
    \/ \E s \in PageUsers : create_user(s[1], s[2], s[3])
    \/ \E u \in PageUsernames : delete_user(u)
    \/ \E l \in 0..MaxLimit, o \in 0..MaxOffset : get_first_n_users(l, o)
    \/ get_first_n_users_default

SpecPage == Init /\ [][NextPage]_vars

----------------------------------------------------------------------------
(* Vocabulary of the properties *)

ConflictMessage == "Username or email already taken!"

Reads == {"get_user", "get_all_users", "get_user_from_partial", "get_first_n_users"}

\* positions of the rows of t with that username / that email
WithUsername(t, username) == { i \in 1..Len(t) : t[i].username = username }
WithEmail(t, email)       == { i \in 1..Len(t) : t[i].email = email }

\* t without its row at position i, stated row by row
Without(t, i, u) ==
    /\ Len(u) = Len(t) - 1
    /\ \A k \in 1..Len(u) : u[k] = IF k < i THEN t[k] ELSE t[k + 1]

\* q occurs in s as a contiguous run of characters
IsSubstring(q, s) ==
    \E i \in 0..(Len(s) - Len(q)) :
        \A k \in 1..Len(q) : s[i + k] = q[k]

\* the rows the partial search is specified to return
SubstringMatches(t, query) ==
    { i \in 1..Len(t) : \/ IsSubstring(lower(query), lower(t[i].username))
                        \/ IsSubstring(lower(query), lower(t[i].email)) }

SeedRow == [username |-> bob, email |-> bobmail, password |-> bobpass]

----------------------------------------------------------------------------
(* C1: in every reachable state, also after a command that printed the     *)
(* conflict message or ended in an unhandled error, no two rows of the     *)
(* table share a username and no two rows share an email.                  *)
C1_UniqueUsernameAndEmail ==
    \A i, j \in 1..Len(table) :
        i # j => /\ table[i].username # table[j].username
                 /\ table[i].email # table[j].email

\* a full table right after a change_email that died on the constraint
C1_Witness ==
    /\ Len(table) = 3
    /\ cmd.name = "change_email"
    /\ out.raised = "IntegrityError"

(* C2: create_user with a username or an email some row already has prints *)
(* the conflict message, raises nothing, and leaves the table exactly as   *)
(* it found it.                                                            *)
C2_CreateConflictRollsBack ==
    (/\ cmd.name = "create_user"
     /\ \/ WithUsername(before, cmd.args[1]) # {}
        \/ WithEmail(before, cmd.args[2]) # {})
    => /\ out.kind = ConflictMessage
       /\ out.raised = "none"
       /\ out.rows = <<>>
       /\ table = before

\* a create with an unused username whose email is taken
C2_Witness ==
    /\ cmd.name = "create_user"
    /\ WithUsername(before, cmd.args[1]) = {}
    /\ WithEmail(before, cmd.args[2]) # {}
    /\ out.kind = ConflictMessage
    /\ Len(before) >= 2

(* C3: create_user with a username and an email no row has appends exactly *)
(* one row, leaves the existing rows as they were, and a get_user with     *)
(* that username run next prints a row with the given username, email and  *)
(* password, not the not-found message.                                    *)
C3_CreateThenGet ==
    (/\ cmd.name = "create_user"
     /\ WithUsername(before, cmd.args[1]) = {}
     /\ WithEmail(before, cmd.args[2]) = {})
    => /\ Len(table) = Len(before) + 1
       /\ \A k \in 1..Len(before) : table[k] = before[k]
       /\ out.raised = "none"
       /\ LET got == get_user_run(table, cmd.args[1])
          IN  /\ got.out.kind = "user"
              /\ Len(got.out.rows) = 1
              /\ got.out.rows[1].username = cmd.args[1]
              /\ got.out.rows[1].email = cmd.args[2]
              /\ got.out.rows[1].password = cmd.args[3]
              /\ got.table = table

\* a third user created with a password other than the seed's
C3_Witness ==
    /\ cmd.name = "create_user"
    /\ Len(before) = 2
    /\ Len(table) = 3
    /\ table[3].password # bobpass
    /\ table[3].username = cmd.args[1]

(* C4: change_email on an existing username, with an email no other row    *)
(* has, sets the email of that row and nothing else; on an unknown         *)
(* username it prints the not-found message and changes no row.            *)
C4_ChangeEmailFrame ==
    cmd.name = "change_email" =>
        LET found == WithUsername(before, cmd.args[1])
        IN  /\ (found = {}) =>
                  /\ out.kind = "not found! Unable to update email."
                  /\ out.raised = "none"
                  /\ table = before
            /\ \A i \in found :
                  (WithEmail(before, cmd.args[2]) \subseteq {i}) =>
                      /\ Len(table) = Len(before)
                      /\ table[i].email = cmd.args[2]
                      /\ table[i].username = before[i].username
                      /\ table[i].password = before[i].password
                      /\ \A k \in 1..Len(before) : k # i => table[k] = before[k]
                      /\ out.kind = "Updated"
                      /\ out.raised = "none"

\* the second of two rows got an email it did not have
C4_Witness ==
    /\ cmd.name = "change_email"
    /\ Len(before) = 2
    /\ before[2].username = cmd.args[1]
    /\ before[2].email # cmd.args[2]
    /\ table[2].email = cmd.args[2]

(* C5: change_email on an existing username to an email another row has    *)
(* prints neither the success nor the conflict message and does not return *)
(* normally: the IntegrityError of the commit is not caught.               *)
C5_ChangeEmailConflictUnhandled ==
    (/\ cmd.name = "change_email"
     /\ \E i \in WithUsername(before, cmd.args[1]) :
            \E j \in WithEmail(before, cmd.args[2]) : j # i)
    => /\ out.raised = "IntegrityError"
       /\ out.kind # "Updated"
       /\ out.kind # ConflictMessage

\* bob asked for the email of another row
C5_Witness ==
    /\ cmd.name = "change_email"
    /\ cmd.args[1] = bob
    /\ WithUsername(before, bob) # {}
    /\ \E j \in WithEmail(before, cmd.args[2]) : before[j].username # bob
    /\ out.raised = "IntegrityError"

(* C6: delete_user removes the one row whose username is the argument and  *)
(* changes nothing else; on an unknown username it prints the not-found    *)
(* message, returns normally and leaves the table as it was.               *)
C6_DeleteFrame ==
    cmd.name = "delete_user" =>
        LET found == WithUsername(before, cmd.args[1])
        IN  /\ (found = {}) =>
                  /\ out.kind = "not found! Unable to delete user."
                  /\ out.raised = "none"
                  /\ table = before
            /\ \A i \in found :
                  /\ Without(before, i, table)
                  /\ out.kind = "deleted"
                  /\ out.raised = "none"

\* the middle one of three rows deleted
C6_Witness ==
    /\ cmd.name = "delete_user"
    /\ Len(before) = 3
    /\ before[2].username = cmd.args[1]
    /\ Len(table) = 2

(* C7: get_user_from_partial returns all and only the rows whose username  *)
(* or email contains the query as a substring, case-insensitively, for     *)
(* every query, '%' and '_' included; it prints the no-matches message     *)
(* exactly when there is no such row.                                      *)
C7_PartialIsSubstringMatch ==
    cmd.name = "get_user_from_partial" =>
        LET expected == SubstringMatches(table, cmd.args[1])
        IN  /\ Range(out.rows) = { table[i] : i \in expected }
            /\ (out.kind = "No matches") <=> (expected = {})

(* C7, without the wildcard characters: for a query with no '%' and no '_' *)
(* the rows printed are the substring matches.                             *)
C7_PartialPlainQuery ==
    (/\ cmd.name = "get_user_from_partial"
     /\ \A k \in 1..Len(cmd.args[1]) : cmd.args[1][k] \notin {"%", "_"})
    => LET expected == SubstringMatches(table, cmd.args[1])
       IN  /\ Range(out.rows) = { table[i] : i \in expected }
           /\ (out.kind = "No matches") <=> (expected = {})

(* C8: get_first_n_users(limit, offset) prints the rows at positions       *)
(* offset+1 .. min(offset+limit, N) of the storage order, in order, and    *)
(* the no-users message exactly when there is none; called with no         *)
(* arguments it uses limit 10 and offset 0.                                *)
C8_PageIsSlice ==
    cmd.name = "get_first_n_users" =>
        LET limit  == IF cmd.args = <<>> THEN 10 ELSE cmd.args[1]
            offset == IF cmd.args = <<>> THEN 0 ELSE cmd.args[2]
            last   == Min(offset + limit, Len(table))
            count  == IF last > offset THEN last - offset ELSE 0
        IN  /\ Len(out.rows) = count
            /\ \A k \in 1..count : out.rows[k] = table[offset + k]
            /\ (out.kind = "No users found.") <=> (count = 0)
            /\ (out.kind = "users") <=> (count > 0)

\* five users, limit 2, offset 4: only the fifth
C8_Witness ==
    /\ cmd.name = "get_first_n_users"
    /\ cmd.args = <<2, 4>>
    /\ Len(table) = 5
    /\ out.rows = <<table[5]>>

(* C9: after initialize the table holds the seed user and nothing else,    *)
(* whatever it held before; initialize run again gives the same table and  *)
(* never meets a uniqueness conflict on the seed user.                     *)
C9_InitializeResets ==
    cmd.name = "initialize" =>
        /\ table = <<SeedRow>>
        /\ out.kind = "Database Initialized"
        /\ out.raised = "none"

\* initialize run on the table initialize left
C9_Witness ==
    /\ cmd.name = "initialize"
    /\ before = <<SeedRow>>
    /\ table = <<SeedRow>>

(* C10: between two consecutive states a row keeps its username and        *)
(* password; its email changes only in a change_email naming its username; *)
(* it is removed only by a delete_user naming its username or by           *)
(* initialize; the four read commands leave the table as it was.           *)
C10_Lifecycle ==
    /\ cmd.name \in Reads => table = before
    /\ cmd.name = "create_user" =>
          /\ Len(table) >= Len(before)
          /\ \A k \in 1..Len(before) : table[k] = before[k]
    /\ cmd.name = "change_email" =>
          /\ Len(table) = Len(before)
          /\ \A k \in 1..Len(before) :
                /\ table[k].username = before[k].username
                /\ table[k].password = before[k].password
                /\ table[k].email # before[k].email
                      => before[k].username = cmd.args[1]
    /\ cmd.name = "delete_user" =>
          \/ table = before
          \/ \E i \in WithUsername(before, cmd.args[1]) : Without(before, i, table)

\* a row whose email was changed outlives the deletion of the seed user
C10_Witness ==
    /\ cmd.name = "delete_user"
    /\ cmd.args[1] = bob
    /\ Len(before) = 3
    /\ Len(table) = 2
    /\ \E k \in 1..2 : table[k].email = bobmail

====
